---- MODULE Spec2Model ----
(***************************************************************************)
(* The pulumi-build provisioning program (src/index.ts and the earlier     *)
(* variant src/unnamed/part_000) as a state machine: main reads its       *)
(* configuration keys and the `vms` inventory (it throws when a required   *)
(* key is not set), registers one VirtualMachine resource per VMConfig and *)
(* returns the stack outputs; the registered resources are then resolved   *)
(* one by one by the provider.                                             *)
(*                                                                         *)
(* JavaScript values: an optional property is the set of its values, {}    *)
(* when the property is undefined and {v} when it holds v, so that         *)
(* `x && {...}`, `x ?? d` and `x || d` are computed as JavaScript computes *)
(* them (an object or an array, even an empty one, is truthy; the empty    *)
(* string is falsy but not nullish).                                       *)
(***************************************************************************)
EXTENDS Integers, Sequences, FiniteSets, TLC

VARIABLES
    variant,     \* which program runs: "index" (src/index.ts) or "part_000"
    vmConfigs,   \* config.requireObject("vms")
    hosts,       \* the hypervisor hosts that exist (environment)
    config,      \* the stack configuration keys that are set
    pc,          \* main's position: "start", "loop", "done", "failed" (it threw)
    i,           \* the loop's position in vmConfigs
    requests,    \* the VirtualMachine resources registered in this run, in order
    vmIds,       \* index.ts vmIds / part_000 vms: the vm.id output of each request
    vmsByName,   \* index.ts vmsByName
    exports,     \* the stack outputs exported so far
    status,      \* per registered resource: "pending", "created", "failed"
    ids,         \* per registered resource: the resolved vm.id ({} while unresolved)
    machines,    \* the machines that exist on the hypervisor
    stack,       \* the stack's state: resource name -> machine id
    run,         \* number of the current run of the program
    prev,        \* what the previous run left: its machines, and whether all were created
    \* the convergence pipeline that follows provisioning
    nodes,       \* the NodeSpec inventory: name, role, host of each node
    fastStorageNames,  \* the declared fast-storage node names
    token,       \* the join token: "none", "supplied" or "generated"
    bstate,      \* per node: its bootstrap state
    joined,      \* the nodes that executed the join command
    labels,      \* per node: the PlacementLabelSet written to it ({} before)
    access,      \* Cluster Access Provider: "idle", "ok", "CredentialUnavailableError"
    storage      \* Storage Installer: "not_invoked", "installed", "StorageInstallError"

provVars == <<variant, vmConfigs, hosts, config, pc, i, requests, vmIds, vmsByName,
              exports, status, ids, machines, stack, run, prev>>

pipeVars == <<nodes, fastStorageNames, token, bstate, joined, labels, access, storage>>

(***************************************************************************)
(* Bounds of the model.                                                    *)
(***************************************************************************)
MaxVMs == 2
MaxRuns == 2
MaxNodes == 3

(***************************************************************************)
(* JavaScript's undefined, truthiness, ?? and ||.                          *)
(***************************************************************************)
Undefined == {}
Some(v) == {v}
Get(o) == CHOOSE v \in o : TRUE

\* `x && ...` on an optional object or array: every object is truthy.
TruthyObject(o) == o # Undefined
\* `x && ...` / `x || d` on an optional string: "" is falsy.
TruthyString(o) == o # Undefined /\ Get(o) # ""
\* x ?? d
NullishOr(o, d) == IF o = Undefined THEN d ELSE Get(o)
\* x || d  (strings)
FalsyOr(o, d) == IF TruthyString(o) THEN Get(o) ELSE d
\* ...(cond && {block}): spreading a falsy value adds no property.
Spread(cond, block) == IF cond THEN block ELSE <<>>
Has(rec, key) == key \in DOMAIN rec

(***************************************************************************)
(* The VMConfig values the inventory is drawn from.                        *)
(***************************************************************************)
Names == {"a", "b"}
Hosts == {"H1", "H2"}
Variants == {"index", "part_000"}

CloneValues == {Undefined, Some([nodeName |-> "H1", vmId |-> 9000, full |-> TRUE])}
DnsValues ==
    { Undefined,
      Some([domain |-> "example.com", server |-> Some("10.0.0.1"), servers |-> Undefined]),
      Some([domain |-> "example.com", server |-> Undefined, servers |-> Some(<<"10.0.0.1">>)]) }
Ipv4Values == {Undefined, Some([address |-> "10.0.0.100/24", gateway |-> "10.0.0.1"])}
SshKeysValues == {Undefined, Some(<<>>), Some(<<"ssh-rsa AAAA">>)}
UsernameValues == {Undefined, Some(""), Some("admin")}
PasswordValues == {Undefined, Some(""), Some("secret")}
FileFormatValues == {Undefined, Some(""), Some("raw")}
VmIdValues == {Undefined, Some(100)}
CoresValues == {0, 2}

CloudInitValues ==
    {Undefined} \cup
    { Some([datastoreId |-> "local-lvm", dns |-> d, ipv4 |-> p, sshKeys |-> k,
            username |-> u, password |-> w]) :
        d \in DnsValues, p \in Ipv4Values, k \in SshKeysValues,
        u \in UsernameValues, w \in PasswordValues }

VMConfig(n, h, v, c, f, cl, ci) ==
    [ name |-> n, nodeName |-> h, vmId |-> v,
      cpu |-> [cores |-> c, sockets |-> 1],
      memory |-> [dedicated |-> 2048],
      disk |-> Some([interface |-> "scsi0", datastoreId |-> "local-lvm", size |-> 20,
                     fileFormat |-> f]),
      network |-> Some([bridge |-> "vmbr0", model |-> "virtio"]),
      clone |-> cl, cloudInit |-> ci ]

\* Every shape of one VMConfig (a single-VM inventory is drawn from these).
FullConfigs ==
    { VMConfig("a", "H1", v, c, f, cl, ci) :
        v \in VmIdValues, c \in CoresValues, f \in FileFormatValues,
        cl \in CloneValues, ci \in CloudInitValues }

\* The VMConfigs of a multi-VM inventory: name, host and clone vary.
FleetConfigs ==
    { VMConfig(n, h, Undefined, 2, Undefined, cl, Undefined) :
        n \in Names, h \in Hosts, cl \in CloneValues }

SeqsUpTo(S, n) == UNION { [1..k -> S] : k \in 0..n }

(***************************************************************************)
(* The request main builds for one VMConfig (the VirtualMachine args).     *)
(***************************************************************************)
\* Faulty variant: both programs default only an unset fileFormat
FileFormat_Nullish(v, cfg) == NullishOr(Get(cfg.disk).fileFormat, "qcow2")

\* disk.fileFormat ?? "qcow2" (index.ts) / disk.fileFormat || "qcow2" (part_000)
FileFormat(v, cfg) ==
    IF v = "index" THEN NullishOr(Get(cfg.disk).fileFormat, "qcow2")
    ELSE FalsyOr(Get(cfg.disk).fileFormat, "qcow2")

\* Faulty variant: both programs default only an unset username
Username_Nullish(v, ci) == NullishOr(ci.username, "root")

\* cloudInit.username ?? "root" (index.ts) / cloudInit.username || "root" (part_000)
Username(v, ci) ==
    IF v = "index" THEN NullishOr(ci.username, "root")
    ELSE FalsyOr(ci.username, "root")

CloneBlock(cfg) ==
    Spread(TruthyObject(cfg.clone),
           "clone" :> [ nodeName |-> Get(cfg.clone).nodeName,
                        vmId |-> Get(cfg.clone).vmId,
                        full |-> Get(cfg.clone).full ])

\* index.ts copies dns.servers, part_000 copies dns.server; a property the
\* config does not have is copied as undefined.
DnsBlock(v, ci) ==
    Spread(TruthyObject(ci.dns),
           "dns" :> IF v = "index"
                    THEN [domain |-> Get(ci.dns).domain, servers |-> Get(ci.dns).servers]
                    ELSE [domain |-> Get(ci.dns).domain, server |-> Get(ci.dns).server])

IpConfigsBlock(ci) ==
    Spread(TruthyObject(ci.ipv4),
           "ipConfigs" :> << [ipv4 |-> [ address |-> Get(ci.ipv4).address,
                                         gateway |-> Get(ci.ipv4).gateway ]] >>)

\* Faulty variant: the user account is emitted only for a non-empty key list
UserAccountBlock_NonEmptyKeys(v, ci) ==
    Spread(TruthyObject(ci.sshKeys) /\ Get(ci.sshKeys) # <<>>,
           "userAccount" :>
               ( [username |-> Username(v, ci), keys |-> Get(ci.sshKeys)]
                 @@ Spread(TruthyString(ci.password),
                           "password" :> Get(ci.password)) ))

\* Faulty variant: the user account is emitted for any cloud-init user, keys or not
UserAccountBlock_AlwaysKeys(v, ci) ==
    "userAccount" :>
        ( [ username |-> Username(v, ci),
            keys |-> IF TruthyObject(ci.sshKeys) THEN Get(ci.sshKeys)
                     ELSE <<"ssh-rsa DEFAULT">> ]
          @@ Spread(TruthyString(ci.password), "password" :> Get(ci.password)) )

UserAccountBlock(v, ci) ==
    Spread(TruthyObject(ci.sshKeys),
           "userAccount" :>
               ( [username |-> Username(v, ci), keys |-> Get(ci.sshKeys)]
                 @@ Spread(TruthyString(ci.password),
                           "password" :> Get(ci.password)) ))

InitializationBlock(v, cfg) ==
    Spread(TruthyObject(cfg.cloudInit),
           "initialization" :>
               ( [type |-> "nocloud", datastoreId |-> Get(cfg.cloudInit).datastoreId]
                 @@ DnsBlock(v, Get(cfg.cloudInit))
                 @@ IpConfigsBlock(Get(cfg.cloudInit))
                 @@ UserAccountBlock(v, Get(cfg.cloudInit)) ))

\* vmConfig.disk.interface and vmConfig.network.bridge are read whether or not
\* the block is there: reading a property of undefined throws a TypeError.
Throws(cfg) == cfg.disk = Undefined \/ cfg.network = Undefined

\* disks: [ { ... } ]
Disks(v, cfg) ==
    << [ interface |-> Get(cfg.disk).interface,
         datastoreId |-> Get(cfg.disk).datastoreId,
         size |-> Get(cfg.disk).size,
         fileFormat |-> FileFormat(v, cfg) ] >>

\* Faulty variant: the network device is left out of the request
NetworkDevices_Omitted(cfg) == <<>>

\* networkDevices: [ { ... } ]
NetworkDevices(cfg) ==
    << [bridge |-> Get(cfg.network).bridge, model |-> Get(cfg.network).model] >>

BuildRequest(v, cfg) ==
    [ name |-> cfg.name, nodeName |-> cfg.nodeName, vmId |-> cfg.vmId,
      cpu |-> [cores |-> cfg.cpu.cores, sockets |-> cfg.cpu.sockets],
      memory |-> [dedicated |-> cfg.memory.dedicated],
      disks |-> Disks(v, cfg),
      networkDevices |-> NetworkDevices(cfg),
      bios |-> "seabios", onBoot |-> TRUE,
      agent |-> [enabled |-> TRUE, trim |-> TRUE, type |-> "virtio"],
      operatingSystem |-> [type |-> "l26"] ]
    @@ CloneBlock(cfg)
    @@ InitializationBlock(v, cfg)

\* Faulty variant: a logical name that changes from run to run
ResourceName_PerRun(cfg) == <<cfg.name, run>>

\* The resource's logical name: the constructor's first argument.
ResourceName(cfg) == cfg.name

\* Faulty variant: a clone is requested as a create followed by a clone
Registrations_CreateThenClone(v, cfg) ==
    IF TruthyObject(cfg.clone)
    THEN << [ resource |-> ResourceName(cfg),
              args |-> BuildRequest(v, [cfg EXCEPT !.clone = Undefined]) ],
            [ resource |-> ResourceName(cfg), args |-> BuildRequest(v, cfg) ] >>
    ELSE << [resource |-> ResourceName(cfg), args |-> BuildRequest(v, cfg)] >>

\* What one loop iteration registers for a VMConfig: one VirtualMachine.
Registrations(v, cfg) ==
    << [resource |-> ResourceName(cfg), args |-> BuildRequest(v, cfg)] >>

\* Faulty variant: each machine is made to depend on the one registered before it
DependsOn_Previous(k) == IF k > 1 THEN {k - 1} ELSE {}

\* The resources a registered resource waits for: the options hold the
\* provider only, no dependsOn.
DependsOn(k) == {}

(***************************************************************************)
(* The provider's side of a registered resource.                           *)
(***************************************************************************)
UsedIds == {m.id : m \in machines}

\* The id the hypervisor assigns when the request names none: the lowest free one.
AutoId ==
    CHOOSE n \in 100..(100 + Cardinality(machines)) :
        /\ n \notin UsedIds
        /\ \A m \in 100..(100 + Cardinality(machines)) : m \notin UsedIds => n <= m

MachineId(args) == NullishOr(args.vmId, AutoId)

\* The create/clone call succeeds when the target host exists, the template's
\* host exists (a clone) and the requested id is free.
HypervisorAccepts(args) ==
    /\ args.nodeName \in hosts
    /\ Has(args, "clone") => args.clone.nodeName \in hosts
    /\ args.vmId # Undefined => Get(args.vmId) \notin UsedIds

\* A resource name registered twice in one run is refused (duplicate URN).
DuplicateResource(k) ==
    \E j \in 1..(k - 1) : requests[j].resource = requests[k].resource

AllSettled == \A k \in 1..Len(status) : status[k] # "pending"
AllCreated == \A k \in 1..Len(status) : status[k] = "created"

(***************************************************************************)
(* The stack outputs.  An exported value is available once every output it *)
(* holds has resolved; pulumi.all resolves when all of its inputs have.    *)
(***************************************************************************)
Export(handles, total) == [handles |-> handles, total |-> total, state |-> "fulfilled"]

\* `outputs.then(o => o.x)` of a main that threw: a rejected promise.
Rejected == [handles |-> {}, total |-> 0, state |-> "rejected"]

\* Faulty variant: the total is counted from the per-name entries
MainOutputs_CountByName ==
    ( <<"totalVms">> :> Export({}, Cardinality(DOMAIN vmsByName)) )
    @@ ( <<"vmsByName">> :> Export({vmsByName[n].id : n \in DOMAIN vmsByName},
                                   Cardinality(DOMAIN vmsByName)) )
    @@ ( <<"vmIdList">> :> Export({vmIds[k] : k \in 1..Len(vmIds)}, Len(vmIds)) )

\* index.ts lines 199-203 and 208-210.
MainOutputs ==
    ( <<"totalVms">> :> Export({}, Len(vmConfigs)) )
    @@ ( <<"vmsByName">> :> Export({vmsByName[n].id : n \in DOMAIN vmsByName},
                                   Cardinality(DOMAIN vmsByName)) )
    @@ ( <<"vmIdList">> :> Export({vmIds[k] : k \in 1..Len(vmIds)}, Len(vmIds)) )

\* Lines 208-210: the three exports, all derived from main's one promise.
OutputKeys == { <<"totalVms">>, <<"vmsByName">>, <<"vmIdList">> }
FailedOutputs == [key \in OutputKeys |-> Rejected]

OutputAvailable(key) ==
    /\ exports[key].state = "fulfilled"
    /\ \A h \in exports[key].handles : status[h] = "created"

(***************************************************************************)
(* main.                                                                   *)
(***************************************************************************)
\* The configuration keys main reads (lines 59-61 and 71).
ConfigKeys == {"proxmox:endpoint", "proxmox:apiToken", "proxmox:insecure", "vms"}

\* Faulty variant: the inventory is read with an optional getter
RequiredKeys_VmsOptional == {"proxmox:endpoint", "proxmox:apiToken"}

\* require("endpoint"), requireSecret("apiToken"), requireObject("vms")
RequiredKeys == {"proxmox:endpoint", "proxmox:apiToken", "vms"}

\* Faulty variant: the id is put at the front of the list
PushId_Front(list, vm) == <<vm>> \o list

\* vmIds.push(vm.id)
PushId(list, vm) == Append(list, vm)

\* vmsByName[vmConfig.name] = { id, name, nodeName, requestedVmId }
VmEntry(cfg, vm) ==
    [ id |-> vm, name |-> vm, nodeName |-> cfg.nodeName, requestedVmId |-> cfg.vmId ]

TypeOK ==
    /\ variant \in Variants
    /\ config \subseteq ConfigKeys
    /\ pc \in {"start", "loop", "done", "failed"}
    /\ i \in 1..(Len(vmConfigs) + 1)
    /\ Len(status) = Len(requests) /\ Len(ids) = Len(requests)
    /\ run \in 1..MaxRuns

InitRun ==
    /\ pc = "start"
    /\ i = 1
    /\ requests = <<>>
    /\ vmIds = <<>>
    /\ vmsByName = <<>>
    /\ exports = <<>>
    /\ status = <<>>
    /\ ids = <<>>
    /\ machines = {}
    /\ stack = <<>>
    /\ run = 1
    /\ prev = [machines |-> {}, allCreated |-> FALSE]

\* Lines 52-84: the configuration is read and the provider made.  part_000
\* calls pulumi.export, which the Node SDK does not have (index.ts line 198):
\* a type-checking build refuses the program, another build runs it.
\* config.require / requireSecret / requireObject throw when the key is not
\* set; a main that threw leaves index.ts's three exports rejected.
Start ==
    /\ pc = "start"
    /\ IF RequiredKeys \subseteq config
       THEN /\ \/ pc' = "loop"
               \/ variant = "part_000" /\ pc' = "failed"
            /\ UNCHANGED exports
       ELSE /\ pc' = "failed"
            /\ exports' = IF variant = "index" THEN FailedOutputs ELSE exports
    /\ UNCHANGED <<variant, vmConfigs, hosts, config, i, requests, vmIds, vmsByName,
                   status, ids, machines, stack, run, prev>>
    /\ UNCHANGED pipeVars

\* One iteration of `for (const vmConfig of vmConfigs)`.
LoopIter ==
    /\ pc = "loop"
    /\ i <= Len(vmConfigs)
    /\ IF Throws(vmConfigs[i])
       THEN \* the TypeError is thrown while the args are built: nothing is registered
            /\ pc' = "failed"
            /\ exports' = IF variant = "index" THEN FailedOutputs ELSE exports
            /\ UNCHANGED <<requests, status, ids, vmIds, vmsByName, i>>
       ELSE LET cfg == vmConfigs[i]
                regs == Registrations(variant, cfg)
                vm == Len(requests) + Len(regs)
            IN /\ requests' = requests \o regs
               /\ status' = status \o [k \in 1..Len(regs) |-> "pending"]
               /\ ids' = ids \o [k \in 1..Len(regs) |-> Undefined]
               /\ vmIds' = PushId(vmIds, vm)
               /\ IF variant = "index"
                  THEN /\ vmsByName' = (cfg.name :> VmEntry(cfg, vm)) @@ vmsByName
                       /\ i' = i + 1
                       /\ pc' = pc
                  ELSE \* pulumi.export is not a function: main's promise rejects
                       /\ pc' = "failed"
                       /\ UNCHANGED <<vmsByName, i>>
               /\ UNCHANGED exports
    /\ UNCHANGED <<variant, vmConfigs, hosts, config, machines, stack, run, prev>>
    /\ UNCHANGED pipeVars

\* The loop is over: index.ts returns its outputs, part_000 calls pulumi.export.
Return ==
    /\ pc = "loop"
    /\ i > Len(vmConfigs)
    /\ IF variant = "index"
       THEN pc' = "done" /\ exports' = MainOutputs
       ELSE pc' = "failed" /\ UNCHANGED exports
    /\ UNCHANGED <<variant, vmConfigs, hosts, config, i, requests, vmIds, vmsByName,
                   status, ids, machines, stack, run, prev>>
    /\ UNCHANGED pipeVars

\* The provider settles registered resource k.  main has no await: its body
\* runs to its end before any registration is answered.
Resolve(k) ==
    /\ pc \in {"done", "failed"}
    /\ k \in 1..Len(requests)
    /\ status[k] = "pending"
    /\ \A j \in DependsOn(k) : status[j] # "pending"
    /\ LET r == requests[k] IN
       IF \/ \E j \in DependsOn(k) : status[j] = "failed"
          \/ DuplicateResource(k)
       THEN /\ status' = [status EXCEPT ![k] = "failed"]
            /\ UNCHANGED <<ids, machines, stack>>
       ELSE IF r.resource \in DOMAIN stack
       THEN \* already in the stack's state: nothing is created
            /\ status' = [status EXCEPT ![k] = "created"]
            /\ ids' = [ids EXCEPT ![k] = Some(stack[r.resource])]
            /\ UNCHANGED <<machines, stack>>
       ELSE IF ~HypervisorAccepts(r.args)
       THEN /\ status' = [status EXCEPT ![k] = "failed"]
            /\ UNCHANGED <<ids, machines, stack>>
       ELSE /\ status' = [status EXCEPT ![k] = "created"]
            /\ ids' = [ids EXCEPT ![k] = Some(MachineId(r.args))]
            /\ machines' = machines \cup
                   { [ id |-> MachineId(r.args), name |-> r.args.name,
                       nodeName |-> r.args.nodeName ] }
            /\ stack' = (r.resource :> MachineId(r.args)) @@ stack
    /\ UNCHANGED <<variant, vmConfigs, hosts, config, pc, i, requests, vmIds, vmsByName,
                   exports, run, prev>>
    /\ UNCHANGED pipeVars

\* `pulumi up` again, over the same inventory and the state the last run left.
Rerun ==
    /\ pc \in {"done", "failed"}
    /\ AllSettled
    /\ run < MaxRuns
    /\ run' = run + 1
    /\ prev' = [machines |-> machines, allCreated |-> pc = "done" /\ AllCreated]
    /\ pc' = "start"
    /\ i' = 1
    /\ requests' = <<>>
    /\ vmIds' = <<>>
    /\ vmsByName' = <<>>
    /\ exports' = <<>>
    /\ status' = <<>>
    /\ ids' = <<>>
    /\ UNCHANGED <<variant, vmConfigs, hosts, config, machines, stack>>
    /\ UNCHANGED pipeVars

NextProv ==
    \/ Start
    \/ LoopIter
    \/ Return
    \/ \E k \in 1..Len(requests) : Resolve(k)
    \/ Rerun

(***************************************************************************)
(* The convergence pipeline: Placement Policy, Remote Bootstrap Executor,  *)
(* Cluster Access Provider, Storage Installer and the orchestrator's       *)
(* ordering of them.                                                       *)
(***************************************************************************)
NodeNames == <<"a", "b", "c", "d">>
NodeHosts == <<"H1", "H1", "H2", "H9">>
Roles == {"server", "worker"}
FastNames == {"a", "b", "z"}

\* The inventories: up to MaxNodes nodes, at least one of them a server.
Inventories ==
    { [k \in 1..n |-> [name |-> NodeNames[k], role |-> r[k], host |-> NodeHosts[k]]] :
        n \in 1..MaxNodes, r \in [1..MaxNodes -> Roles] }

NodeIds == 1..Len(nodes)

\* The designated first server: the first node of the inventory with role server.
FirstServer ==
    CHOOSE k \in NodeIds :
        /\ nodes[k].role = "server"
        /\ \A j \in NodeIds : nodes[j].role = "server" => k <= j

\* Placement Policy.
Zone(host) ==
    CASE host = "H1" -> "zone-1"
      [] host = "H2" -> "zone-2"
      [] OTHER -> "zone-default"

\* Faulty variant: every server is put on the fast tier
StorageTier_ByRole(node, names) ==
    IF node.name \in names \/ node.role = "server" THEN "ssd" ELSE "hdd"

StorageTier(node, names) == IF node.name \in names THEN "ssd" ELSE "hdd"

Pool(tier) == IF tier = "ssd" THEN "core" ELSE "bulk"

LabelSet(node, names) ==
    [ cluster |-> "member", role |-> node.role,
      tier |-> StorageTier(node, names),
      pool |-> Pool(StorageTier(node, names)),
      zone |-> Zone(node.host) ]

derive(ns, names) == [k \in 1..Len(ns) |-> LabelSet(ns[k], names)]

\* StorageEligibility: the declared names that are in the registry.
StorageEligibility == {k \in NodeIds : nodes[k].name \in fastStorageNames}

Terminal == {"Done", "Failed", "Skipped"}

\* Faulty variant: every node's bootstrap starts at once
MayStart_Ungated(k) == TRUE

\* The orchestrator's one ordering rule: the other nodes' bootstrap depends
\* on the first server being Done.
MayStart(k) == k = FirstServer \/ bstate[FirstServer] = "Done"

\* Faulty variant: credentials are handed out whatever became of the first server
AccessOutcome_AlwaysOk == "ok"

\* Cluster Access Provider's result.
AccessOutcome ==
    IF bstate[FirstServer] = "Done" THEN "ok" ELSE "CredentialUnavailableError"

PipelineIdle ==
    /\ nodes = <<>>
    /\ fastStorageNames = {}
    /\ token = "none"
    /\ bstate = <<>>
    /\ joined = {}
    /\ labels = <<>>
    /\ access = "idle"
    /\ storage = "not_invoked"

\* Pending -> Connected
Connect(k) ==
    /\ bstate[k] = "Pending"
    /\ MayStart(k)
    /\ bstate' = [bstate EXCEPT ![k] = "Connected"]
    /\ UNCHANGED <<nodes, fastStorageNames, token, joined, labels, access, storage>>
    /\ UNCHANGED provVars

\* Connected -> Installed: the first server makes the token when none was
\* supplied; every other node needs it known.
Install(k) ==
    /\ bstate[k] = "Connected"
    /\ k # FirstServer => token # "none"
    /\ bstate' = [bstate EXCEPT ![k] = "Installed"]
    /\ token' = IF k = FirstServer /\ token = "none" THEN "generated" ELSE token
    /\ UNCHANGED <<nodes, fastStorageNames, joined, labels, access, storage>>
    /\ UNCHANGED provVars

\* Installed -> Joined: the join command, except on the first server.
Join(k) ==
    /\ bstate[k] = "Installed"
    /\ bstate' = [bstate EXCEPT ![k] = "Joined"]
    /\ joined' = IF k = FirstServer THEN joined ELSE joined \cup {k}
    /\ UNCHANGED <<nodes, fastStorageNames, token, labels, access, storage>>
    /\ UNCHANGED provVars

\* Joined -> Labeled
ApplyLabels(k) ==
    /\ bstate[k] = "Joined"
    /\ bstate' = [bstate EXCEPT ![k] = "Labeled"]
    /\ labels' = [labels EXCEPT ![k] = Some(derive(nodes, fastStorageNames)[k])]
    /\ UNCHANGED <<nodes, fastStorageNames, token, joined, access, storage>>
    /\ UNCHANGED provVars

\* Labeled -> Done
Finish(k) ==
    /\ bstate[k] = "Labeled"
    /\ bstate' = [bstate EXCEPT ![k] = "Done"]
    /\ UNCHANGED <<nodes, fastStorageNames, token, joined, labels, access, storage>>
    /\ UNCHANGED provVars

\* A transition of a node that started fails: Failed is absorbing.
Fail(k) ==
    /\ bstate[k] \in {"Connected", "Installed", "Joined", "Labeled"}
          \/ (bstate[k] = "Pending" /\ MayStart(k))
    /\ bstate' = [bstate EXCEPT ![k] = "Failed"]
    /\ UNCHANGED <<nodes, fastStorageNames, token, joined, labels, access, storage>>
    /\ UNCHANGED provVars

\* No first-server success aborts the remaining stages: the others are skipped.
Skip(k) ==
    /\ bstate[FirstServer] = "Failed"
    /\ bstate[k] = "Pending"
    /\ bstate' = [bstate EXCEPT ![k] = "Skipped"]
    /\ UNCHANGED <<nodes, fastStorageNames, token, joined, labels, access, storage>>
    /\ UNCHANGED provVars

\* Cluster Access Provider, once the bootstrap stage is over.
ProvideAccess ==
    /\ access = "idle"
    /\ \A k \in NodeIds : bstate[k] \in Terminal
    /\ access' = AccessOutcome
    /\ UNCHANGED <<nodes, fastStorageNames, token, bstate, joined, labels, storage>>
    /\ UNCHANGED provVars

\* Storage Installer: needs the cluster access and every eligible node labeled.
InstallStorage ==
    /\ storage = "not_invoked"
    /\ access = "ok"
    /\ \A k \in StorageEligibility : bstate[k] \in {"Labeled", "Done"}
    /\ \/ storage' = "installed"
       \/ storage' = "StorageInstallError"
    /\ UNCHANGED <<nodes, fastStorageNames, token, bstate, joined, labels, access>>
    /\ UNCHANGED provVars

NextPipeline ==
    \/ \E k \in NodeIds : Connect(k)
    \/ \E k \in NodeIds : Install(k)
    \/ \E k \in NodeIds : Join(k)
    \/ \E k \in NodeIds : ApplyLabels(k)
    \/ \E k \in NodeIds : Finish(k)
    \/ \E k \in NodeIds : Fail(k)
    \/ \E k \in NodeIds : Skip(k)
    \/ ProvideAccess
    \/ InstallStorage

vars == <<provVars, pipeVars>>

\* Either program over a fleet inventory.
Init ==
    /\ variant \in Variants
    /\ vmConfigs \in SeqsUpTo(FleetConfigs, MaxVMs)
    /\ hosts \in SUBSET Hosts \ {{}}
    /\ config = ConfigKeys
    /\ InitRun
    /\ PipelineIdle

Next == NextProv

Spec == Init /\ [][Next]_vars

\* Either program over an inventory of one VMConfig of any shape.
InitBuild ==
    /\ variant \in Variants
    /\ vmConfigs \in { <<cfg>> : cfg \in FullConfigs }
    /\ hosts = Hosts
    /\ config = ConfigKeys
    /\ InitRun
    /\ PipelineIdle

SpecBuild == InitBuild /\ [][Next]_vars

\* The pipeline over an inventory of nodes whose machines are provisioned.
InitPipeline ==
    /\ variant = "index"
    /\ vmConfigs = <<>>
    /\ hosts = Hosts
    /\ config = ConfigKeys
    /\ InitRun
    /\ nodes \in Inventories
    /\ \E k \in 1..Len(nodes) : nodes[k].role = "server"
    /\ fastStorageNames \in SUBSET FastNames
    /\ token \in {"none", "supplied"}
    /\ bstate = [k \in 1..Len(nodes) |-> "Pending"]
    /\ joined = {}
    /\ labels = [k \in 1..Len(nodes) |-> Undefined]
    /\ access = "idle"
    /\ storage = "not_invoked"

SpecPipeline == InitPipeline /\ [][NextPipeline]_vars

\* Either program over any setting of the configuration keys and an
\* inventory of distinctly named nodes, each with or without a vmId, a disk
\* block and a network block.
BlockShapes == { <<TRUE, TRUE>>, <<FALSE, TRUE>>, <<TRUE, FALSE>> }
ShapedVmIds == {Undefined, Some(100), Some(101)}

Shaped(n, v, b) ==
    [ VMConfig(n, "H1", v, 2, Undefined, Undefined, Undefined)
        EXCEPT !.disk = IF b[1] THEN @ ELSE Undefined,
               !.network = IF b[2] THEN @ ELSE Undefined ]

ShapedInventories ==
    UNION { { inv \in [1..n -> { Shaped(NodeNames[k], v, b) :
                                   k \in 1..n, v \in ShapedVmIds, b \in BlockShapes }] :
                \A k \in 1..n : inv[k].name = NodeNames[k] } : n \in 1..MaxVMs }

InitConfig ==
    /\ variant \in Variants
    /\ vmConfigs \in ShapedInventories
    /\ hosts = Hosts
    /\ config \in SUBSET ConfigKeys
    /\ InitRun
    /\ PipelineIdle

SpecConfig == InitConfig /\ [][Next]_vars

(***************************************************************************)
(* Properties.                                                             *)
(***************************************************************************)
\* The request main built for inventory entry k (defined once its iteration ran).
Built == 1..Len(vmIds)
RequestOf(k) == requests[vmIds[k]].args

NonEmptyBlock(b) == DOMAIN b # {}

\* C1: for every VMConfig the request holds a clone block iff the config has
\* clone, an initialization block iff it has cloudInit, and in it a dns,
\* ipConfigs and userAccount block iff cloudInit.dns, .ipv4 and .sshKeys are
\* present; no block that is emitted is an empty placeholder.
C1_OptionalBlocks ==
    \A k \in Built :
        LET cfg == vmConfigs[k]
            req == RequestOf(k)
        IN /\ Has(req, "clone") <=> cfg.clone # Undefined
           /\ Has(req, "clone") => NonEmptyBlock(req.clone)
           /\ Has(req, "initialization") <=> cfg.cloudInit # Undefined
           /\ Has(req, "initialization") =>
                LET ci == Get(cfg.cloudInit)
                    ini == req.initialization
                IN /\ NonEmptyBlock(ini)
                   /\ Has(ini, "dns") <=> ci.dns # Undefined
                   /\ Has(ini, "ipConfigs") <=> ci.ipv4 # Undefined
                   /\ Has(ini, "userAccount") <=> ci.sshKeys # Undefined
                   /\ Has(ini, "dns") => NonEmptyBlock(ini.dns)
                   /\ Has(ini, "ipConfigs") => NonEmptyBlock(ini.ipConfigs)
                   /\ Has(ini, "userAccount") => NonEmptyBlock(ini.userAccount)

\* part_000 built a request from a config with cloudInit that has an (empty)
\* sshKeys list and an address but neither dns nor clone.
C1_Witness ==
    /\ variant = "part_000"
    /\ Len(vmIds) = 1
    /\ vmConfigs[1].clone = Undefined
    /\ vmConfigs[1].cloudInit # Undefined
    /\ Get(vmConfigs[1].cloudInit).dns = Undefined
    /\ Get(vmConfigs[1].cloudInit).ipv4 # Undefined
    /\ Get(vmConfigs[1].cloudInit).sshKeys = Some(<<>>)
    /\ DOMAIN RequestOf(1).initialization =
           {"type", "datastoreId", "ipConfigs", "userAccount"}

\* The SSH public keys a request carries.
KeysCarried(req) ==
    IF Has(req, "initialization") /\ Has(req.initialization, "userAccount")
    THEN req.initialization.userAccount.keys
    ELSE <<>>

KeysConfigured(cfg) ==
    IF cfg.cloudInit # Undefined /\ Get(cfg.cloudInit).sshKeys # Undefined
    THEN Get(Get(cfg.cloudInit).sshKeys)
    ELSE <<>>

\* C2 (as claimed): no request ever carries SSH public key material.
C2_NeverCarriesKeys == \A k \in Built : KeysCarried(RequestOf(k)) = <<>>

\* C2 (amended): a request carries exactly the public keys configured in the
\* node's cloudInit.sshKeys, and none when no key is configured.
C2_CarriesConfiguredKeys ==
    \A k \in Built : KeysCarried(RequestOf(k)) = KeysConfigured(vmConfigs[k])

C2_Witness ==
    \E k \in Built :
        /\ KeysConfigured(vmConfigs[k]) = <<"ssh-rsa AAAA">>
        /\ KeysCarried(RequestOf(k)) = <<"ssh-rsa AAAA">>

\* C3: a second run over an inventory whose machines were all provisioned by
\* the run before creates no machine and fails for no node.
C3_RerunConverges ==
    (run > 1 /\ prev.allCreated) =>
        /\ machines = prev.machines
        /\ pc # "failed"
        /\ \A k \in 1..Len(status) : status[k] # "failed"

C3_Witness ==
    /\ run = 2
    /\ prev.allCreated
    /\ Cardinality(prev.machines) = 2
    /\ pc = "done"
    /\ Len(requests) = 2
    /\ AllCreated

\* A node's own reasons to fail: its host or its template's host does not
\* exist, its requested id is taken, or its name is registered twice.
OwnFault(k) ==
    \/ requests[k].args.nodeName \notin hosts
    \/ Has(requests[k].args, "clone") /\ requests[k].args.clone.nodeName \notin hosts
    \/ requests[k].args.vmId # Undefined /\ Get(requests[k].args.vmId) \in UsedIds
    \/ DuplicateResource(k)

PartialFailure ==
    /\ \E k \in 1..Len(status) : status[k] = "created"
    /\ \E k \in 1..Len(status) : status[k] = "failed"

UniqueNames(cfgs) ==
    \A j, k \in 1..Len(cfgs) : cfgs[j].name = cfgs[k].name => j = k

\* C5 (as claimed): when a run with a partial failure is over (the inventory's
\* names being unique), the outputs are available and report every inventory
\* node, the failed ones included.
C5_ReportOnPartialFailure ==
    (pc = "done" /\ AllSettled /\ PartialFailure /\ UniqueNames(vmConfigs)) =>
        \A k \in 1..Len(vmConfigs) :
            \E key \in DOMAIN exports :
                /\ vmIds[k] \in exports[key].handles
                /\ OutputAvailable(key)

\* The validation rules of the inventory: unique names, positive shape fields.
ValidInventory(cfgs) ==
    /\ UniqueNames(cfgs)
    /\ \A k \in 1..Len(cfgs) :
        /\ cfgs[k].cpu.cores > 0
        /\ cfgs[k].memory.dedicated > 0
        /\ cfgs[k].disk # Undefined /\ Get(cfgs[k].disk).size > 0

\* C6 (as claimed): an inventory that violates a validation rule fails the
\* run before any request is issued.
C6_ValidationBeforeRequests ==
    ~ValidInventory(vmConfigs) => (requests = <<>> /\ pc # "done")

Strategy(args) == IF Has(args, "clone") THEN "clone" ELSE "create"

\* C10: every node gets exactly one request, a clone request when its config
\* has a clone reference and a create request otherwise.
C10_OneStrategyPerNode ==
    /\ Len(requests) = Len(vmIds)
    /\ \A k \in Built :
        /\ vmIds[k] = k
        /\ Strategy(RequestOf(k)) =
               IF vmConfigs[k].clone # Undefined THEN "clone" ELSE "create"

C10_Witness ==
    /\ Len(requests) = 2
    /\ Strategy(requests[1].args) = "clone"
    /\ Strategy(requests[2].args) = "create"

\* C7: no node executes the join command before the first server is Done,
\* and once it is Done every other node's next step can be taken whatever
\* state the rest are in.
C7_JoinAfterFirstServerDone ==
    /\ \A k \in NodeIds :
        (k # FirstServer /\ (k \in joined \/ bstate[k] \in {"Joined", "Labeled", "Done"}))
            => bstate[FirstServer] = "Done"
    /\ bstate[FirstServer] = "Done" =>
        \A k \in NodeIds :
            /\ bstate[k] = "Pending" => ENABLED Connect(k)
            /\ bstate[k] = "Connected" => ENABLED Install(k)
            /\ bstate[k] = "Installed" => ENABLED Join(k)
            /\ bstate[k] = "Joined" => ENABLED ApplyLabels(k)
            /\ bstate[k] = "Labeled" => ENABLED Finish(k)

\* A later node joined and finished while an earlier one has not started.
C7_Witness ==
    /\ Len(nodes) = 3
    /\ FirstServer = 1
    /\ bstate[1] = "Done"
    /\ bstate[2] = "Pending"
    /\ bstate[3] = "Done"
    /\ 3 \in joined

\* C8: when the first server's bootstrap failed, the Cluster Access Provider
\* can only end in CredentialUnavailableError (and does so once the bootstrap
\* stage is over), and the Storage Installer is not invoked.
C8_NoCredentialsNoStorage ==
    bstate[FirstServer] = "Failed" =>
        /\ access \in {"idle", "CredentialUnavailableError"}
        /\ storage = "not_invoked"
        /\ (access = "idle" /\ \A k \in NodeIds : bstate[k] \in Terminal)
               => ENABLED ProvideAccess

C8_Witness ==
    /\ Len(nodes) = 3
    /\ bstate[FirstServer] = "Failed"
    /\ access = "CredentialUnavailableError"
    /\ storage = "not_invoked"

\* C9: a node whose name is not in the fast-storage list never gets the
\* labels storage-tier ssd or pool core, and pool is core iff tier is ssd.
C9_FastStorageLabels ==
    \A k \in NodeIds :
        labels[k] # Undefined =>
            /\ nodes[k].name \notin fastStorageNames =>
                   (Get(labels[k]).tier # "ssd" /\ Get(labels[k]).pool # "core")
            /\ Get(labels[k]).pool = "core" <=> Get(labels[k]).tier = "ssd"

\* A listed node is labeled ssd/core, an unlisted server hdd/bulk, and the
\* list names a node the inventory does not have.
C9_Witness ==
    /\ Len(nodes) = 3
    /\ fastStorageNames = {"b", "z"}
    /\ nodes[1].role = "server"
    /\ labels[1] # Undefined /\ Get(labels[1]).tier = "hdd" /\ Get(labels[1]).pool = "bulk"
    /\ labels[2] # Undefined /\ Get(labels[2]).tier = "ssd" /\ Get(labels[2]).pool = "core"

AbsentBlock(cfg) == cfg.disk = Undefined \/ cfg.network = Undefined

InventoryNames == {vmConfigs[k].name : k \in 1..Len(vmConfigs)}
\* The last inventory entry that has name n.
LastNamed(n) ==
    CHOOSE k \in 1..Len(vmConfigs) :
        /\ vmConfigs[k].name = n
        /\ \A j \in (k + 1)..Len(vmConfigs) : vmConfigs[j].name # n

IdOutputName(n) == <<"vm", n, "id">>

\* C14: once the program has completed and every machine is created, the id
\* of every VM named N can be read from a stack output named vm-N-id.
C14_IdOutputPerVm ==
    ( /\ pc = "done"
      /\ Len(vmConfigs) > 0
      /\ AllSettled /\ AllCreated ) =>
        \A k \in 1..Len(vmConfigs) :
            /\ IdOutputName(vmConfigs[k].name) \in DOMAIN exports
            /\ OutputAvailable(IdOutputName(vmConfigs[k].name))

\* The config's dns block is written the documented way: domain and server.
DocumentedDns(cfg) ==
    /\ cfg.cloudInit # Undefined
    /\ Get(cfg.cloudInit).dns # Undefined
    /\ Get(Get(cfg.cloudInit).dns).server # Undefined

\* C15: a cloudInit.dns block written as documented (domain and server) gives
\* a request whose dns block carries the domain and the configured server.
C15_DnsServerCarried ==
    \A k \in Built :
        DocumentedDns(vmConfigs[k]) =>
            LET dns == Get(Get(vmConfigs[k].cloudInit).dns)
                ini == RequestOf(k).initialization
            IN /\ Has(ini, "dns")
               /\ ini.dns.domain = dns.domain
               /\ \/ Has(ini.dns, "server") /\ ini.dns.server = dns.server
                  \/ Has(ini.dns, "servers") /\ ini.dns.servers # Undefined

\* C16 (as stated): in both variants the request's disk fileFormat is the
\* config's disk.fileFormat when the config specifies it, and qcow2 when it
\* does not.
C16_FileFormatAsConfigured ==
    \A k \in Built :
        LET f == Get(vmConfigs[k].disk).fileFormat
            out == RequestOf(k).disks[1].fileFormat
        IN /\ f # Undefined => out = Get(f)
           /\ f = Undefined => out = "qcow2"

\* C16 (amended): the fileFormat is qcow2 when the config specifies none;
\* when it specifies one, index.ts passes it on as it is, the empty string
\* included, and part_000 passes on a non-empty one and replaces the empty
\* string by qcow2.
C16_FileFormatPerVariant ==
    \A k \in Built :
        LET f == Get(vmConfigs[k].disk).fileFormat
            out == RequestOf(k).disks[1].fileFormat
        IN /\ f = Undefined => out = "qcow2"
           /\ (f # Undefined /\ variant = "index") => out = Get(f)
           /\ (f # Undefined /\ variant = "part_000") =>
                  out = IF Get(f) = "" THEN "qcow2" ELSE Get(f)

\* part_000 built the request of a config whose fileFormat is the empty
\* string: the request says qcow2.
C16_Witness ==
    /\ variant = "part_000"
    /\ Len(vmIds) = 1
    /\ Get(vmConfigs[1].disk).fileFormat = Some("")
    /\ RequestOf(1).disks[1].fileFormat = "qcow2"

\* The request's user account block and the cloudInit it was built from.
HasAccount(k) ==
    /\ Has(RequestOf(k), "initialization")
    /\ Has(RequestOf(k).initialization, "userAccount")
AccountOf(k) == RequestOf(k).initialization.userAccount
KeysPresent(cfg) == cfg.cloudInit # Undefined /\ Get(cfg.cloudInit).sshKeys # Undefined

\* C17 (as stated): a user account is emitted only when sshKeys is present;
\* its username is the configured username, or root when none is given; it
\* has a password only when a non-empty password is configured; a username
\* or password configured without sshKeys gives no user account.
C17_AccountAsConfigured ==
    \A k \in Built :
        /\ HasAccount(k) <=> KeysPresent(vmConfigs[k])
        /\ HasAccount(k) =>
              LET ci == Get(vmConfigs[k].cloudInit)
                  acc == AccountOf(k)
              IN /\ ci.username # Undefined => acc.username = Get(ci.username)
                 /\ ci.username = Undefined => acc.username = "root"
                 /\ Has(acc, "password") <=>
                        (ci.password # Undefined /\ Get(ci.password) # "")
                 /\ Has(acc, "password") => acc.password = Get(ci.password)

\* C17 (amended): as stated, but for the username: index.ts passes on a
\* configured username as it is, the empty string included, and part_000
\* passes on a non-empty one and replaces the empty string by root.
C17_AccountPerVariant ==
    \A k \in Built :
        /\ HasAccount(k) <=> KeysPresent(vmConfigs[k])
        /\ HasAccount(k) =>
              LET ci == Get(vmConfigs[k].cloudInit)
                  acc == AccountOf(k)
              IN /\ ci.username = Undefined => acc.username = "root"
                 /\ (ci.username # Undefined /\ variant = "index") =>
                        acc.username = Get(ci.username)
                 /\ (ci.username # Undefined /\ variant = "part_000") =>
                        acc.username = IF Get(ci.username) = "" THEN "root"
                                       ELSE Get(ci.username)
                 /\ acc.keys = Get(ci.sshKeys)
                 /\ Has(acc, "password") <=>
                        (ci.password # Undefined /\ Get(ci.password) # "")
                 /\ Has(acc, "password") => acc.password = Get(ci.password)

\* part_000 built the request of a config with sshKeys, an empty username
\* and an empty password: the account is root's and has no password.
C17_Witness ==
    /\ variant = "part_000"
    /\ Len(vmIds) = 1
    /\ KeysPresent(vmConfigs[1])
    /\ Get(vmConfigs[1].cloudInit).username = Some("")
    /\ Get(vmConfigs[1].cloudInit).password = Some("")
    /\ HasAccount(1)
    /\ AccountOf(1).username = "root"
    /\ ~Has(AccountOf(1), "password")

\* The configuration values the program cannot run without.
Mandatory == {"proxmox:endpoint", "proxmox:apiToken", "vms"}

\* C18: when proxmox:endpoint, proxmox:apiToken or vms is not set, main fails
\* before any VirtualMachine is requested, and each of the three exported
\* outputs fails instead of reporting a partial result.
C18_MissingConfigFails ==
    ~(Mandatory \subseteq config) =>
        /\ pc \in {"start", "failed"}
        /\ pc = "start" => ENABLED Start
        /\ requests = <<>> /\ vmIds = <<>> /\ machines = {}
        /\ (pc = "failed" /\ variant = "index") =>
              /\ DOMAIN exports = OutputKeys
              /\ \A key \in OutputKeys :
                    exports[key].state = "rejected" /\ ~OutputAvailable(key)

\* index.ts ran with an inventory of two nodes and no proxmox:apiToken: main
\* failed and the three exports are rejected.
C18_Witness ==
    /\ variant = "index"
    /\ config = {"proxmox:endpoint", "proxmox:insecure", "vms"}
    /\ Len(vmConfigs) = 2
    /\ pc = "failed"
    /\ requests = <<>>
    /\ \A key \in OutputKeys : exports[key].state = "rejected"

====
